---- MODULE Spec2Model ----
(***************************************************************************)
(* Flight-instrument dashboard: the host panel adapters (render handler,   *)
(* done acknowledgment, disposal), the standalone simulated dashboards     *)
(* (interval timers), the quaternion-to-Euler conversion and the gauge     *)
(* geometry.                                                               *)
(*                                                                         *)
(* Numbers.  Angles are fixed-point, in tenths of a degree (360 degrees =  *)
(* 3600).  Quaternion components are integers in units of 1/QScale, so the *)
(* products formed by quaternionToEuler are exact integers over the common *)
(* denominator QScale*QScale.  Math.asin and Math.atan2 are evaluated from *)
(* a sine table to whole degrees (rounded towards zero).  JavaScript's %   *)
(* is the truncating remainder (sign of the dividend).  NaN is a value of  *)
(* its own.  Signed zero and rounding of doubles are not represented.      *)
(***************************************************************************)
EXTENDS Integers, Sequences, FiniteSets, TLC

VARIABLES
    arg,        \* pure-function specifications: the call being evaluated
    res,        \* pure-function specifications: its result
    panel,      \* which panel component is rendered into the host context
    root,       \* "none" | "mounted" | "unmounted": the React root of the panel
    droneData,  \* committed useState value droneData of the panel
    renderDone, \* committed useState value renderDone (0 = undefined)
    pending,    \* state updates queued by setRenderDone / setDroneData
    onRender,   \* context.onRender: the installed handler and the droneData it closed over
    passive,    \* TRUE when the [renderDone] effect is scheduled and has not run
    host,       \* the host side: frames delivered, done calls seen, subscriptions
    dash        \* the standalone dashboard view (DroneDashboard / MinimalDashboard)

vars == <<arg, res, panel, root, droneData, renderDone, pending, onRender, passive, host, dash>>

panelVars == <<panel, root, droneData, renderDone, pending, onRender, passive, host>>

pureVars == <<arg, res>>

-----------------------------------------------------------------------------
(* Bounds of the model *)

\* quaternion components range over -QScale..QScale in units of 1/QScale
QScale == 4

-----------------------------------------------------------------------------
(* JavaScript arithmetic *)

\* Not-a-Number: a number outside every range the program computes
NaN == 0 - 1000000

\* undefined, for an optional numeric field
undefined == 0 - 2000000

Abs(a) == IF a < 0 THEN -a ELSE a

\* Math.sign
Sign(a) == IF a > 0 THEN 1 ELSE IF a < 0 THEN -1 ELSE 0

\* a % n of JavaScript: the remainder of the truncating division
JsRem(a, n) == IF a >= 0 THEN a % n ELSE -((-a) % n)

\* 10000 * sin(d degrees), d = 0..90, at index d + 1
SinTab ==
    << 0, 175, 349, 523, 698, 872, 1045, 1219, 1392, 1564, 1736, 1908, 2079,
       2250, 2419, 2588, 2756, 2924, 3090, 3256, 3420, 3584, 3746, 3907, 4067,
       4226, 4384, 4540, 4695, 4848, 5000, 5150, 5299, 5446, 5592, 5736, 5878,
       6018, 6157, 6293, 6428, 6561, 6691, 6820, 6947, 7071, 7193, 7314, 7431,
       7547, 7660, 7771, 7880, 7986, 8090, 8192, 8290, 8387, 8480, 8572, 8660,
       8746, 8829, 8910, 8988, 9063, 9135, 9205, 9272, 9336, 9397, 9455, 9511,
       9563, 9613, 9659, 9703, 9744, 9781, 9816, 9848, 9877, 9903, 9925, 9945,
       9962, 9976, 9986, 9994, 9998, 10000 >>

SinDeg(d) == SinTab[d + 1]

CosDeg(d) == SinTab[91 - d]

\* Math.asin(num/den) * (180 / Math.PI), in tenths of a degree; NaN outside [-1, 1]
AsinDeg(num, den) ==
    IF Abs(num) > den THEN NaN
    ELSE IF Abs(num) = den THEN Sign(num) * 900
    ELSE LET d == CHOOSE k \in 0..89 :
                    /\ SinDeg(k) * den <= Abs(num) * 10000
                    /\ SinDeg(k + 1) * den > Abs(num) * 10000
         IN  Sign(num) * d * 10

\* Math.atan2(y, x) * (180 / Math.PI), in tenths of a degree, in [-1800, 1800]
Atan2Deg(y, x) ==
    IF y = 0 THEN (IF x >= 0 THEN 0 ELSE 1800)
    ELSE IF x = 0 THEN Sign(y) * 900
    ELSE LET d == CHOOSE k \in 0..89 :
                    /\ SinDeg(k) * Abs(x) <= Abs(y) * CosDeg(k)
                    /\ SinDeg(k + 1) * Abs(x) > Abs(y) * CosDeg(k + 1)
         IN  IF x > 0 THEN Sign(y) * d * 10 ELSE Sign(y) * (1800 - d * 10)

-----------------------------------------------------------------------------
(* quaternionToEuler *)

\* denominator of every product of two quaternion components
QDen == QScale * QScale

QRange == (0 - QScale)..QScale

Quaternions == [x : QRange, y : QRange, z : QRange, w : QRange]

rollOf_swappedArgs(quat) ==
    LET sinr_cosp == 2 * (quat.w * quat.x + quat.y * quat.z)
        cosr_cosp == QDen - 2 * (quat.x * quat.x + quat.y * quat.y)
    IN  Atan2Deg(cosr_cosp, sinr_cosp)

rollOf(quat) ==
    LET sinr_cosp == 2 * (quat.w * quat.x + quat.y * quat.z)
        cosr_cosp == QDen - 2 * (quat.x * quat.x + quat.y * quat.y)
    IN  Atan2Deg(sinr_cosp, cosr_cosp)

\* 2 * (w * y - z * x), as a numerator over QDen
sinpOf(quat) == 2 * (quat.w * quat.y - quat.z * quat.x)

pitchOf_noClamp(sinp) == AsinDeg(sinp, QDen)

pitchOf_clampAtZero(sinp) ==
    IF Abs(sinp) >= QDen \/ sinp = 0 THEN (IF sinp >= 0 THEN 900 ELSE -900)
    ELSE AsinDeg(sinp, QDen)

pitchOf(sinp) ==
    IF Abs(sinp) >= QDen THEN Sign(sinp) * 900
    ELSE AsinDeg(sinp, QDen)

yawOf(quat) ==
    LET siny_cosp == 2 * (quat.w * quat.z + quat.x * quat.y)
        cosy_cosp == QDen - 2 * (quat.y * quat.y + quat.z * quat.z)
    IN  Atan2Deg(siny_cosp, cosy_cosp)

quaternionToEuler(quat) ==
    [roll |-> rollOf(quat), pitch |-> pitchOf(sinpOf(quat)), yaw |-> yawOf(quat)]

identityQuat == [x |-> 0, y |-> 0, z |-> 0, w |-> QScale]

-----------------------------------------------------------------------------
(* Topics and String.prototype.includes *)

\* the characters of a string the panels compare topics with
Chars(s) ==
    CASE s = "/fix" -> <<"/", "f", "i", "x">>
      [] s = "/imu/data_stamped" -> <<"/", "i", "m", "u", "/", "d", "a", "t", "a", "_", "s", "t", "a", "m", "p", "e", "d">>
      [] s = "/sensor_msgs/NavSatFix" -> <<"/", "s", "e", "n", "s", "o", "r", "_", "m", "s", "g", "s", "/", "N", "a", "v", "S", "a", "t", "F", "i", "x">>
      [] s = "/nav_msgs/Odometry" -> <<"/", "n", "a", "v", "_", "m", "s", "g", "s", "/", "O", "d", "o", "m", "e", "t", "r", "y">>
      [] s = "/Odometry" -> <<"/", "O", "d", "o", "m", "e", "t", "r", "y">>
      [] s = "/some/topic" -> <<"/", "s", "o", "m", "e", "/", "t", "o", "p", "i", "c">>
      [] s = "NavSatFix" -> <<"N", "a", "v", "S", "a", "t", "F", "i", "x">>
      [] s = "/sensor_msgs" -> <<"/", "s", "e", "n", "s", "o", "r", "_", "m", "s", "g", "s">>
      [] s = "/imu" -> <<"/", "i", "m", "u">>
      [] s = "data_stamped" -> <<"d", "a", "t", "a", "_", "s", "t", "a", "m", "p", "e", "d">>
      [] s = "IMUwithTimeRef" -> <<"I", "M", "U", "w", "i", "t", "h", "T", "i", "m", "e", "R", "e", "f">>

\* topic.includes(needle)
Includes(topic, needle) ==
    LET h == Chars(topic)
        n == Chars(needle)
    IN  \E i \in 1..(Len(h) - Len(n) + 1) : SubSeq(h, i, i + Len(n) - 1) = n

-----------------------------------------------------------------------------
(* Telemetry snapshots and inbound messages *)

\* the longest currentFrame of the frame-processing specification
MaxFrameLen == 3

\* a 3-axis vector, components in tenths of the unit
Vec(a, b, c) == [x |-> a, y |-> b, z |-> c]

\* initialData of the panels; id is the identity of the object
initialData ==
    [id |-> 0, altitude |-> 0, heading |-> 0, roll |-> 0, pitch |-> 0,
     imuAcceleration |-> Vec(0, 0, 98), imuGyro |-> Vec(0, 0, 0),
     imuMag |-> Vec(0, 0, 0), latitude |-> undefined, longitude |-> undefined]

\* a message whose payload is null
Null == [isNull |-> TRUE]

Truthy(m) == "isNull" \notin DOMAIN m

GpsPayloads ==
    { [latitude |-> 10, longitude |-> 20, altitude |-> 50],
      [latitude |-> 11, longitude |-> 21, altitude |-> 60] }

ImuPayloads ==
    { [orientation |-> [x |-> 0, y |-> 0, z |-> -1, w |-> 1],
       angular_velocity |-> Vec(1, 0, 0), linear_acceleration |-> Vec(0, 1, 98)],
      [orientation |-> [x |-> 0, y |-> QScale, z |-> 0, w |-> QScale],
       angular_velocity |-> Vec(0, 2, 0), linear_acceleration |-> Vec(2, 0, 97)] }

OdometryPayloads ==
    { [pose |-> [pose |-> [position |-> Vec(1, 2, 3),
                           orientation |-> [x |-> 1, y |-> 0, z |-> 2, w |-> 3]]]],
      [pose |-> [pose |-> [position |-> Vec(1, 2, 3)]]],
      [header |-> [seq |-> 1]] }

\* context.subscribe of each panel
SubscribedTopics(p) ==
    CASE p = "DroneDashboardPanel" ->
            {"/fix", "/imu/data_stamped", "/sensor_msgs/NavSatFix", "/nav_msgs/Odometry"}
      [] p = "MinimalDashboardPanel" -> {"/fix", "/imu/data_stamped", "/Odometry"}
      [] p = "ExamplePanel" -> {"/some/topic"}

\* the payloads a topic carries
PayloadsOf(topic) ==
    CASE topic \in {"/fix", "/sensor_msgs/NavSatFix"} -> GpsPayloads \cup {Null}
      [] topic = "/imu/data_stamped" -> ImuPayloads \cup {Null}
      [] topic = "/Odometry" -> OdometryPayloads \cup {Null}
      [] topic = "/nav_msgs/Odometry" ->
            {[pose |-> [pose |-> [position |-> Vec(1, 2, 3),
                                  orientation |-> [x |-> 1, y |-> 0, z |-> 2, w |-> 3]]]]}
      [] topic = "/some/topic" -> {Null, [data |-> 1]}

\* the message events the host can deliver to panel p
MessagesOf(p) ==
    UNION { {[topic |-> t, message |-> m] : m \in PayloadsOf(t)} : t \in SubscribedTopics(p) }

SeqsUpTo(S, n) == UNION { [1..k -> S] : k \in 0..n }

\* renderState: with a currentFrame, or without one
RenderStates(p, n) ==
    {[topics |-> SubscribedTopics(p)]}
        \cup {[topics |-> SubscribedTopics(p), currentFrame |-> f] : f \in SeqsUpTo(MessagesOf(p), n)}

-----------------------------------------------------------------------------
(* The render handlers: what onRender computes from the droneData it closed over *)

\* (yaw + 360) % 360
NormalizeHeading_noOffset(yaw) == JsRem(yaw, 3600)

NormalizeHeading(yaw) == JsRem(yaw + 3600, 3600)

isGps(p, topic) ==
    IF p = "DroneDashboardPanel"
    THEN topic = "/fix" \/ Includes(topic, "NavSatFix") \/ Includes(topic, "/sensor_msgs")
    ELSE topic = "/fix"

isImu(p, topic) ==
    IF p = "DroneDashboardPanel"
    THEN Includes(topic, "/imu") \/ Includes(topic, "data_stamped")
    ELSE topic = "/imu/data_stamped" \/ Includes(topic, "IMUwithTimeRef")

isOdometry(p, topic) == p = "MinimalDashboardPanel" /\ Includes(topic, "/Odometry")

\* messages[messages.length - 1]
PickMessage_first(messages) == messages[1]

PickMessage(messages) == messages[Len(messages)]

\* the GPS block: st = [data, dataUpdated]
applyGps(p, st, frame) ==
    LET gpsMessages == SelectSeq(frame, LAMBDA msg : isGps(p, msg.topic))
    IN  IF Len(gpsMessages) > 0 /\ Truthy(PickMessage(gpsMessages).message)
        THEN LET gpsData == PickMessage(gpsMessages).message
             IN  [data |-> [st.data EXCEPT !.latitude = gpsData.latitude,
                                           !.longitude = gpsData.longitude,
                                           !.altitude = gpsData.altitude],
                  dataUpdated |-> TRUE]
        ELSE st

applyImu_resetsAltitude(p, st, frame) ==
    LET imuMessages == SelectSeq(frame, LAMBDA msg : isImu(p, msg.topic))
    IN  IF Len(imuMessages) > 0 /\ Truthy(PickMessage(imuMessages).message)
        THEN LET imuData == PickMessage(imuMessages).message
                 e == quaternionToEuler(imuData.orientation)
             IN  [data |-> [st.data EXCEPT !.roll = e.roll,
                                           !.pitch = e.pitch,
                                           !.heading = NormalizeHeading(e.yaw),
                                           !.imuAcceleration = imuData.linear_acceleration,
                                           !.imuGyro = imuData.angular_velocity,
                                           !.altitude = 0],
                  dataUpdated |-> TRUE]
        ELSE st

\* the IMU block
applyImu(p, st, frame) ==
    LET imuMessages == SelectSeq(frame, LAMBDA msg : isImu(p, msg.topic))
    IN  IF Len(imuMessages) > 0 /\ Truthy(PickMessage(imuMessages).message)
        THEN LET imuData == PickMessage(imuMessages).message
                 e == quaternionToEuler(imuData.orientation)
             IN  [data |-> [st.data EXCEPT !.roll = e.roll,
                                           !.pitch = e.pitch,
                                           !.heading = NormalizeHeading(e.yaw),
                                           !.imuAcceleration = imuData.linear_acceleration,
                                           !.imuGyro = imuData.angular_velocity],
                  dataUpdated |-> TRUE]
        ELSE st

\* odometryData?.pose?.pose
HasPose(m) == Truthy(m) /\ "pose" \in DOMAIN m /\ "pose" \in DOMAIN m.pose

\* the Odometry block of MinimalDashboardPanel
applyOdometry(p, st, frame) ==
    LET odometryMessages == SelectSeq(frame, LAMBDA msg : isOdometry(p, msg.topic))
    IN  IF /\ Len(odometryMessages) > 0
           /\ HasPose(PickMessage(odometryMessages).message)
           /\ "orientation" \in DOMAIN PickMessage(odometryMessages).message.pose.pose
           /\ ~st.dataUpdated
        THEN LET e == quaternionToEuler(PickMessage(odometryMessages).message.pose.pose.orientation)
             IN  [data |-> [st.data EXCEPT !.roll = e.roll,
                                           !.pitch = e.pitch,
                                           !.heading = NormalizeHeading(e.yaw)],
                  dataUpdated |-> TRUE]
        ELSE st

spreadCopy_alias(obj, newId) == obj

\* { ...droneData }: a new object, of identity newId, with the fields of obj (the
\* nested vectors are shared with obj; the handler assigns fields and never writes
\* into a vector)
spreadCopy(obj, newId) == [obj EXCEPT !.id = newId]

\* newDroneData and dataUpdated after the GPS, IMU and Odometry blocks
frameWrites(p, captured, frame, newId) ==
    LET st0 == [data |-> spreadCopy(captured, newId), dataUpdated |-> FALSE]
        st1 == applyGps(p, st0, frame)
        st2 == applyImu(p, st1, frame)
    IN  applyOdometry(p, st2, frame)

\* the body of onRender after setRenderDone: the value handed to setDroneData, if any.
\* captured is the droneData of the closure, newId the identity of { ...droneData }
processFrame_alwaysSets(p, captured, renderState, newId) ==
    IF "currentFrame" \notin DOMAIN renderState
    THEN [data |-> spreadCopy(captured, newId), dataUpdated |-> TRUE]
    ELSE [frameWrites(p, captured, renderState.currentFrame, newId)
              EXCEPT !.dataUpdated = TRUE]

processFrame(p, captured, renderState, newId) ==
    IF "currentFrame" \notin DOMAIN renderState
    THEN [data |-> captured, dataUpdated |-> FALSE]
    ELSE LET st3 == frameWrites(p, captured, renderState.currentFrame, newId)
         IN  IF st3.dataUpdated THEN st3 ELSE [data |-> captured, dataUpdated |-> FALSE]

\* the object the closure holds, as it reads after the handler returned: the
\* handler's assignments went to newDroneData, which is that object only if the two
\* have one identity
capturedAfter(p, captured, renderState, newId) ==
    IF "currentFrame" \notin DOMAIN renderState THEN captured
    ELSE LET written == frameWrites(p, captured, renderState.currentFrame, newId).data
         IN  IF written.id = captured.id THEN written ELSE captured

-----------------------------------------------------------------------------
(* The panels inside the host: React root, state, effects, and the host's frames *)

\* frames the host delivers to one panel
MaxFrames == 3

\* distinct done callbacks the host hands out
MaxDone == 2

\* the longest currentFrame the host delivers in the panel specification
MaxHostFrameLen == 1

Panels == {"DroneDashboardPanel", "MinimalDashboardPanel", "ExamplePanel"}

\* useState of ExamplePanel: topics and messages, as one object with an identity
exampleData == [id |-> 0, messages |-> <<>>]

NoPending == [done |-> 0, hasData |-> FALSE]

NoHandler == [installed |-> FALSE]

\* the host's side of one panel; lastGps, lastImu, odometryLater and matched are
\* its record of the messages it delivered
HostIdle ==
    [frames |-> 0, awaiting |-> 0, calls |-> 0, subscribed |-> {}, subscribeCalls |-> 0,
     lateRuns |-> 0, lastGps |-> Null, lastImu |-> Null, odometryLater |-> FALSE,
     matched |-> FALSE]

\* the frame holds a message that passes one of the handler's topic filters
frameMatches(p, renderState) ==
    /\ "currentFrame" \in DOMAIN renderState
    /\ \E i \in 1..Len(renderState.currentFrame) :
          \/ isGps(p, renderState.currentFrame[i].topic)
          \/ isImu(p, renderState.currentFrame[i].topic)
          \/ isOdometry(p, renderState.currentFrame[i].topic)

\* the payload of the last message of a channel the host delivered so far: that of
\* this frame if the frame holds one, the one before otherwise
lastDelivered(messages, before) ==
    IF Len(messages) > 0 /\ Truthy(PickMessage(messages).message)
    THEN PickMessage(messages).message
    ELSE before

\* the host's record after it delivered renderState
delivered(p, h, renderState) ==
    IF "currentFrame" \notin DOMAIN renderState
    THEN [h EXCEPT !.matched = FALSE]
    ELSE LET frame == renderState.currentFrame
             gps == SelectSeq(frame, LAMBDA msg : isGps(p, msg.topic))
             imu == SelectSeq(frame, LAMBDA msg : isImu(p, msg.topic))
             odo == SelectSeq(frame, LAMBDA msg : isOdometry(p, msg.topic))
         IN  [h EXCEPT !.matched = frameMatches(p, renderState),
                       !.lastGps = lastDelivered(gps, @),
                       !.lastImu = lastDelivered(imu, @),
                       !.odometryLater =
                           IF Len(imu) > 0 /\ Truthy(PickMessage(imu).message) THEN FALSE
                           ELSE IF Len(odo) > 0 THEN TRUE ELSE @]

PanelInit ==
    /\ root = "none"
    /\ droneData = IF panel = "ExamplePanel" THEN exampleData ELSE initialData
    /\ renderDone = 0
    /\ pending = NoPending
    /\ onRender = NoHandler
    /\ passive = FALSE
    /\ host = HostIdle

\* createRoot(context.panelElement); root.render(<Panel context={context} />)
initPanel ==
    /\ root = "none"
    /\ root' = "scheduled"
    /\ UNCHANGED <<arg, res, panel, droneData, renderDone, pending, onRender, passive, host, dash>>

\* what the layout effect leaves on the context: the handler, closed over data
installHandler(data) == [installed |-> TRUE, data |-> data]

\* the layout effect runs again when one of its dependencies changed (Object.is)
layoutDepsChanged_contextOnly(p, old, new) == FALSE

layoutDepsChanged(p, old, new) ==
    IF p = "ExamplePanel" THEN FALSE ELSE old.id # new.id

\* context.subscribe([...]) of the layout effect that closed over data
subscribeArg_fromData(p, data) ==
    IF p # "ExamplePanel" /\ data.latitude # undefined
    THEN SubscribedTopics(p) \ {"/fix"}
    ELSE SubscribedTopics(p)

subscribeArg(p, data) == SubscribedTopics(p)

\* first render and commit: the layout effect installs onRender, watches and
\* subscribes; the [renderDone] effect is scheduled
MountCommit ==
    /\ root = "scheduled"
    /\ root' = "mounted"
    /\ onRender' = installHandler(droneData)
    /\ host' = [host EXCEPT !.subscribed = subscribeArg(panel, droneData),
                            !.subscribeCalls = @ + 1]
    /\ passive' = TRUE
    /\ UNCHANGED <<arg, res, panel, droneData, renderDone, pending, dash>>

\* the state updates one call of the handler queues: setRenderDone(() => done),
\* and setDroneData(newDroneData) (ExamplePanel: setTopics, setMessages)
handlerUpdates(p, captured, renderState, done, newId, before) ==
    IF p = "ExamplePanel"
    THEN [done |-> done, hasData |-> TRUE,
          data |-> [id |-> newId,
                    messages |-> IF "currentFrame" \in DOMAIN renderState
                                 THEN renderState.currentFrame ELSE <<>>]]
    ELSE LET r == processFrame(p, captured, renderState, newId)
         IN  IF r.dataUpdated
             THEN [done |-> done, hasData |-> TRUE, data |-> r.data]
             ELSE IF before.hasData
                  THEN [done |-> done, hasData |-> TRUE, data |-> before.data]
                  ELSE [done |-> done, hasData |-> FALSE]

\* the host calls context.onRender(renderState, done); it delivers a frame only
\* when the done of the frame before was called
HostRender(renderState, done) ==
    /\ onRender.installed
    /\ host.awaiting = 0
    /\ host.frames < MaxFrames
    /\ host' = [delivered(panel, host, renderState)
                    EXCEPT !.frames = @ + 1, !.awaiting = done, !.calls = 0,
                           !.lateRuns = IF root = "unmounted" THEN @ + 1 ELSE @]
    /\ pending' = IF root = "mounted"
                  THEN handlerUpdates(panel, onRender.data, renderState, done,
                                      host.frames + 1, pending)
                  ELSE pending
    /\ UNCHANGED <<arg, res, panel, root, droneData, renderDone, onRender, passive, dash>>

DeliverFrame ==
    \E renderState \in RenderStates(panel, MaxHostFrameLen), done \in 1..MaxDone :
        HostRender(renderState, done)

\* React renders with the queued updates and commits; the layout effect runs again
\* if droneData is another object, the [renderDone] effect is scheduled if
\* renderDone is another function.  Effects of the commit before are flushed first.
Commit ==
    /\ root = "mounted"
    /\ pending # NoPending
    /\ ~passive
    /\ LET newData == IF pending.hasData THEN pending.data ELSE droneData
           newDone == IF pending.done # 0 THEN pending.done ELSE renderDone
       IN  /\ droneData' = newData
           /\ renderDone' = newDone
           /\ IF layoutDepsChanged(panel, droneData, newData)
              THEN /\ onRender' = installHandler(newData)
                   /\ host' = [host EXCEPT !.subscribed = subscribeArg(panel, newData),
                                           !.subscribeCalls = @ + 1]
              ELSE UNCHANGED <<onRender, host>>
           /\ passive' = (newDone # renderDone)
    /\ pending' = NoPending
    /\ UNCHANGED <<arg, res, panel, root, dash>>

\* the host's record of a call of the done callback d
callDone(h, d) ==
    IF d = 0 THEN h
    ELSE [h EXCEPT !.calls = @ + 1, !.awaiting = IF @ = d THEN 0 ELSE @]

\* useEffect(() => { renderDone?.() }, [renderDone])
RunPassive ==
    /\ root = "mounted"
    /\ passive
    /\ passive' = FALSE
    /\ host' = callDone(host, renderDone)
    /\ UNCHANGED <<arg, res, panel, root, droneData, renderDone, pending, onRender, dash>>

\* what root.unmount() leaves on context.onRender: the effect returns no cleanup
handlerAfterUnmount(h) == h

\* the disposer: root.unmount().  Scheduled effects are flushed, queued updates are
\* dropped
Dispose ==
    /\ root \in {"scheduled", "mounted"}
    /\ root' = "unmounted"
    /\ host' = IF passive THEN callDone(host, renderDone) ELSE host
    /\ passive' = FALSE
    /\ pending' = NoPending
    /\ onRender' = handlerAfterUnmount(onRender)
    /\ UNCHANGED <<arg, res, panel, droneData, renderDone, dash>>

-----------------------------------------------------------------------------
(* The standalone dashboards: DroneDashboard and MinimalDashboard *)

\* changes of the props of a mounted DroneDashboard
MaxPropChanges == 2

\* timer ticks of one run
MaxTicks == 3

\* state updates queued between two renders
MaxQueue == 2

Dashboards == {"DroneDashboard", "MinimalDashboard"}

\* initialData of the dashboards (altitude 100), as the default data prop
dashInitialData == [id |-> 0, yaw |-> 0, altitude |-> 100, heading |-> 0]

\* the objects a caller passes as the data prop
DataProps ==
    { dashInitialData,
      [id |-> 1, yaw |-> 100, altitude |-> 50, heading |-> 3700],
      [id |-> 2, yaw |-> -50, altitude |-> 70, heading |-> 3598] }

\* 100 + Math.sin(Date.now() / 5000) * 20
SimAltitudes == {80, 100, 120}

DashIdle ==
    [kind |-> "none", view |-> "none", data |-> dashInitialData, simulateData |-> TRUE,
     droneData |-> dashInitialData, queue |-> <<>>, effects |-> FALSE, interval |-> 0,
     timers |-> {}, created |-> 0, changes |-> 0, ticks |-> 0]

\* the first render: useState(data); the effects of the mount are scheduled
mountDash(kind, data, simulateData) ==
    [DashIdle EXCEPT !.kind = kind, !.view = "mounted", !.data = data,
                     !.simulateData = simulateData, !.droneData = data, !.effects = TRUE]

DashMount ==
    /\ dash.view = "none"
    /\ \/ \E data \in DataProps, simulateData \in BOOLEAN :
              dash' = mountDash("DroneDashboard", data, simulateData)
       \/ dash' = mountDash("MinimalDashboard", dashInitialData, TRUE)
    /\ UNCHANGED <<arg, res, panelVars>>

\* return () => clearInterval(interval)
clearOnCleanup_missing(timers, interval) == timers

clearOnCleanup(timers, interval) == timers \ {interval}

\* the updater of one tick, applied to the previous snapshot
simulateTick_fromProp(prevData, altitude) ==
    [id |-> 0 - 1,
     yaw |-> JsRem(dashInitialData.yaw + 5, 3600),
     altitude |-> altitude,
     heading |-> JsRem(dashInitialData.heading + 2, 3600)]

simulateTick(prevData, altitude) ==
    [id |-> 0 - 1,
     yaw |-> JsRem(prevData.yaw + 5, 3600),
     altitude |-> altitude,
     heading |-> JsRem(prevData.heading + 2, 3600)]

\* one queued state update applied
applyUpdate(prevData, u) ==
    IF u.kind = "set" THEN u.data ELSE simulateTick(prevData, u.altitude)

RECURSIVE applyQueue(_, _)
applyQueue(prevData, queue) ==
    IF queue = <<>> THEN prevData
    ELSE applyQueue(applyUpdate(prevData, Head(queue)), Tail(queue))

\* the effects of a commit, in order: the cleanup of the effect before, then the
\* simulation effect and the "real data" effect
runEffects(d) ==
    LET cleared == clearOnCleanup(d.timers, d.interval)
        id == d.created + 1
        set == [kind |-> "set", data |-> d.data]
    IN  IF d.kind = "DroneDashboard" /\ ~d.simulateData
        THEN [d EXCEPT !.effects = FALSE, !.timers = cleared, !.interval = 0,
                       !.queue = @ \o <<set, set>>]
        ELSE [d EXCEPT !.effects = FALSE, !.timers = cleared \cup {id}, !.interval = id,
                       !.created = id]

DashRunEffects ==
    /\ dash.view = "mounted"
    /\ dash.effects
    /\ dash' = runEffects(dash)
    /\ UNCHANGED <<arg, res, panelVars>>

\* the interval callback: setDroneData((prevData) => ...)
DashTick ==
    /\ dash.timers # {}
    /\ dash.ticks < MaxTicks
    /\ Len(dash.queue) < MaxQueue
    /\ \E altitude \in SimAltitudes :
           dash' = [dash EXCEPT !.ticks = @ + 1,
                                !.queue = IF dash.view = "mounted"
                                          THEN Append(@, [kind |-> "tick", altitude |-> altitude])
                                          ELSE @]
    /\ UNCHANGED <<arg, res, panelVars>>

\* React renders with the queued updates; the effects of the commit before ran
DashRender ==
    /\ dash.view = "mounted"
    /\ ~dash.effects
    /\ dash.queue # <<>>
    /\ dash' = [dash EXCEPT !.droneData = applyQueue(@, dash.queue), !.queue = <<>>]
    /\ UNCHANGED <<arg, res, panelVars>>

\* the parent renders DroneDashboard with other props; the effects run again when
\* data is another object or simulateData changed
DashProps ==
    /\ dash.view = "mounted"
    /\ dash.kind = "DroneDashboard"
    /\ ~dash.effects
    /\ dash.changes < MaxPropChanges
    /\ \E data \in DataProps, simulateData \in BOOLEAN :
           /\ <<data.id, simulateData>> # <<dash.data.id, dash.simulateData>>
           /\ dash' = [dash EXCEPT !.data = data, !.simulateData = simulateData,
                                   !.droneData = applyQueue(@, dash.queue),
                                   !.queue = <<>>, !.effects = TRUE,
                                   !.changes = @ + 1]
    /\ UNCHANGED <<arg, res, panelVars>>

\* the interval callback of a simulation that runs for any number of ticks; ticks
\* counts them modulo the full turn
SimTick ==
    /\ dash.view = "mounted"
    /\ dash.timers # {}
    /\ Len(dash.queue) < MaxQueue
    /\ \E altitude \in SimAltitudes :
           dash' = [dash EXCEPT !.ticks = (@ + 1) % 3600,
                                !.queue = Append(@, [kind |-> "tick", altitude |-> altitude])]
    /\ UNCHANGED <<arg, res, panelVars>>

\* the view is unmounted: scheduled effects are flushed, then every cleanup runs
DashUnmount ==
    /\ dash.view = "mounted"
    /\ LET d == IF dash.effects THEN runEffects(dash) ELSE dash
       IN  dash' = [d EXCEPT !.view = "unmounted", !.queue = <<>>,
                             !.timers = clearOnCleanup(@, d.interval), !.interval = 0]
    /\ UNCHANGED <<arg, res, panelVars>>

-----------------------------------------------------------------------------
(* Compass: the heading-dependent drawing of both variants *)

\* ctx.rotate: the rotation part of the transformation matrix is (cos a, sin a),
\* one matrix for a and a + 360 degrees; it is kept as an angle modulo 360 degrees
rotate(rot, a) == (rot + a) % 3600

\* (-heading * Math.PI) / 180
dialRotation_noRadians(heading) == (0 - heading * 573) \div 10

dialRotation(heading) == 0 - heading

\* Math.round(heading), as text
roundText(heading) == [neg |-> (heading + 5) \div 10 < 0, digits |-> Abs((heading + 5) \div 10)]

\* heading.toFixed(0), as text
toFixed0(heading) == [neg |-> heading < 0, digits |-> (Abs(heading) + 5) \div 10]

MajorLabel(i) ==
    CASE i = 0 -> "N" [] i = 90 -> "E" [] i = 180 -> "S" [] i = 270 -> "W" [] OTHER -> ToString(i)

\* Compass of components/Compass.tsx: markers and labels placed at angle i around the
\* centre of the rotated context, then the heading text
drawCompass(heading, size) ==
    LET radius == (size * 45) \div 100
        rot == rotate(0, dialRotation(heading))
        Marks == {i \in 0..359 : i % 5 = 0}
    IN  [dial |->
            {[kind |-> "marker", at |-> rotate(rot, i * 10), from |-> radius,
              to |-> radius - (IF i % 10 = 0 THEN 15 ELSE 5),
              lineWidth |-> IF i % 10 = 0 THEN 2 ELSE 1] : i \in Marks}
            \cup
            {[kind |-> "text", at |-> rotate(rot, i * 10), from |-> radius - 30,
              text |-> MajorLabel(i), red |-> (i = 0)] : i \in {j \in Marks : j % 30 = 0}},
         readout |-> roundText(heading)]

directions ==
    << [label |-> "N", angle |-> 0], [label |-> "NE", angle |-> 45],
       [label |-> "E", angle |-> 90], [label |-> "SE", angle |-> 135],
       [label |-> "S", angle |-> 180], [label |-> "SW", angle |-> 225],
       [label |-> "W", angle |-> 270], [label |-> "NW", angle |-> 315] >>

\* Compass of the second variant: the context is turned 5 degrees after each marker,
\* then the direction labels are drawn, then the heading text
drawCompass2(heading, size) ==
    LET radius == (size * 45) \div 100
        rot == rotate(0, dialRotation(heading))
        Marks == {i \in 0..359 : i % 5 = 0}
        after == rotate(rot, 72 * 50)
    IN  [dial |->
            {[kind |-> "marker", at |-> rotate(rot, (i \div 5) * 50), from |-> radius,
              to |-> radius - (IF i % 30 = 0 THEN 15 ELSE IF i % 10 = 0 THEN 10 ELSE 5),
              lineWidth |-> IF i % 30 = 0 THEN 2 ELSE 1] : i \in Marks}
            \cup
            {[kind |-> "text", at |-> rotate(rot, (i \div 5) * 50), from |-> radius - 25,
              text |-> ToString(i), red |-> (i = 0)] : i \in {j \in Marks : j % 30 = 0}}
            \cup
            {[kind |-> "text", at |-> rotate(after, directions[k].angle * 10),
              from |-> radius - 45, text |-> directions[k].label,
              red |-> (directions[k].label = "N")] : k \in 1..Len(directions)},
         readout |-> toFixed0(heading)]

Compass(variant, heading, size) ==
    IF variant = 1 THEN drawCompass(heading, size) ELSE drawCompass2(heading, size)

-----------------------------------------------------------------------------
(* Needle gauges: Altimeter, AirspeedIndicator, VerticalSpeedIndicator *)

\* Canvas angles: 0 points along +x (3 o'clock) and angles grow clockwise, y
\* pointing down.  An angle that is a quotient in the source is kept exact, as
\* num/den tenths of a degree with den > 0.
Angle(num, den) == [num |-> num, den |-> den]

\* ctx.rotate(angle) on a freshly translated context: the direction the context's
\* axes are turned to, one matrix for angle and angle + 2 pi
rotateTo(angle) == [num |-> angle.num % (3600 * angle.den), den |-> angle.den]

\* v.toFixed(1) as text, v in hundredths that do not end in 5
toFixed1(v) == [neg |-> v < 0, tenths |-> (Abs(v) + 5) \div 10]

\* size * 0.45
radiusOf(size) == (size * 45) \div 100

needleAngle_clamped(altitude, maxAltitude) ==
    Angle((IF altitude < 0 THEN 0 ELSE IF altitude > maxAltitude THEN maxAltitude
           ELSE altitude) * 3600, maxAltitude)

\* (altitude / maxAltitude) * Math.PI * 2
needleAngle(altitude, maxAltitude) == Angle(altitude * 3600, maxAltitude)

\* Altimeter: the needle is drawn from the centre towards (0, -radius + 10), the
\* 12 o'clock zero reference, in the context turned by needleAngle
drawAltimeter(altitude, size, maxAltitude) ==
    LET radius == radiusOf(size)
    IN  [needleAngle |-> needleAngle(altitude, maxAltitude),
         needle |-> [rot |-> rotateTo(needleAngle(altitude, maxAltitude)),
                     tip |-> <<0, 10 - radius>>, base |-> << <<5, 0>>, <<0 - 5, 0>> >>],
         readout |-> toFixed1(altitude * 100)]

\* AirspeedIndicator: startAngle, endAngle of the scale
airspeedStart == 0 - 1350

airspeedEnd == 1350

\* totalAngle * 0.1, totalAngle * 0.2, ...: a number of tenths of the sweep
tenthsOf(totalAngle, k) == (totalAngle * k) \div 10

zoneArcs_gap(startAngle, endAngle) ==
    LET totalAngle == endAngle - startAngle
    IN  << [from |-> startAngle, to |-> startAngle + tenthsOf(totalAngle, 1), color |-> "#ff3b30"],
           [from |-> startAngle + tenthsOf(totalAngle, 1),
            to |-> startAngle + tenthsOf(totalAngle, 2), color |-> "#ffcc00"],
           [from |-> startAngle + tenthsOf(totalAngle, 3),
            to |-> startAngle + tenthsOf(totalAngle, 8), color |-> "#34c759"],
           [from |-> startAngle + tenthsOf(totalAngle, 8),
            to |-> startAngle + tenthsOf(totalAngle, 9), color |-> "#ffcc00"],
           [from |-> startAngle + tenthsOf(totalAngle, 9), to |-> endAngle, color |-> "#ff3b30"] >>

\* the five ctx.arc calls of the speed ranges, in drawing order
zoneArcs(startAngle, endAngle) ==
    LET totalAngle == endAngle - startAngle
    IN  << [from |-> startAngle, to |-> startAngle + tenthsOf(totalAngle, 1), color |-> "#ff3b30"],
           [from |-> startAngle + tenthsOf(totalAngle, 1),
            to |-> startAngle + tenthsOf(totalAngle, 2), color |-> "#ffcc00"],
           [from |-> startAngle + tenthsOf(totalAngle, 2),
            to |-> startAngle + tenthsOf(totalAngle, 8), color |-> "#34c759"],
           [from |-> startAngle + tenthsOf(totalAngle, 8),
            to |-> startAngle + tenthsOf(totalAngle, 9), color |-> "#ffcc00"],
           [from |-> startAngle + tenthsOf(totalAngle, 9), to |-> endAngle, color |-> "#ff3b30"] >>

\* startAngle + (airspeed / maxAirspeed) * totalAngle
airspeedNeedleAngle(airspeed, maxAirspeed) ==
    Angle(airspeedStart * maxAirspeed + airspeed * (airspeedEnd - airspeedStart), maxAirspeed)

\* AirspeedIndicator, airspeed and maxAirspeed in tenths of a m/s: the needle points
\* along +x of the context turned by needleAngle
drawAirspeed(airspeed, size, maxAirspeed) ==
    LET radius == radiusOf(size)
    IN  [zones |-> zoneArcs(airspeedStart, airspeedEnd),
         zoneRadius |-> radius - 5,
         needleAngle |-> airspeedNeedleAngle(airspeed, maxAirspeed),
         needle |-> [rot |-> rotateTo(airspeedNeedleAngle(airspeed, maxAirspeed)),
                     tip |-> <<radius - 20, 0>>],
         readout |-> toFixed1(airspeed * 10)]

\* VerticalSpeedIndicator: startAngle, endAngle of the scale
vsiStart == 0 - 900

vsiEnd == 2700

needleValue_noClamp(verticalSpeed, maxVerticalSpeed) == verticalSpeed

\* Math.max(-maxVerticalSpeed, Math.min(maxVerticalSpeed, verticalSpeed))
needleValue(verticalSpeed, maxVerticalSpeed) ==
    LET low == IF verticalSpeed < maxVerticalSpeed THEN verticalSpeed ELSE maxVerticalSpeed
    IN  IF low > 0 - maxVerticalSpeed THEN low ELSE 0 - maxVerticalSpeed

\* startAngle + (value + maxVerticalSpeed) * tickSpacing, with
\* tickSpacing = totalAngle / (maxVerticalSpeed * 2)
vsiAngle(value, maxVerticalSpeed) ==
    Angle(vsiStart * (maxVerticalSpeed * 2) + (value + maxVerticalSpeed) * (vsiEnd - vsiStart),
          maxVerticalSpeed * 2)

\* VerticalSpeedIndicator, speeds in hundredths of a m/s: the centre line, the
\* needle along +x of the context turned by needleAngle, and the readout of the
\* raw verticalSpeed
drawVsi(verticalSpeed, size, maxVerticalSpeed) ==
    LET radius == radiusOf(size)
        value == needleValue(verticalSpeed, maxVerticalSpeed)
    IN  [centerLine |-> << <<10 - radius, 0>>, <<radius - 10, 0>> >>,
         needleAngle |-> vsiAngle(value, maxVerticalSpeed),
         needle |-> [rot |-> rotateTo(vsiAngle(value, maxVerticalSpeed)),
                     tip |-> <<radius - 20, 0>>],
         readout |-> toFixed1(verticalSpeed)]

-----------------------------------------------------------------------------
(* AttitudeIndicator: horizon offset and the sky and ground fills *)

\* the two AttitudeIndicator sources
AttitudeVariants == {"part_003", "attitude-indicator"}

pitchOffset_saturating(variant, pitch, radius) ==
    LET p == IF pitch > 45 THEN 45 ELSE IF pitch < 0 - 45 THEN 0 - 45 ELSE pitch
    IN  IF variant = "part_003" THEN [num |-> p * radius, den |-> 90]
        ELSE [num |-> p * radius, den |-> 45]

\* (pitch / 90) * radius, and (pitch / 45) * radius in the second source: pixels,
\* as num/den
pitchOffset(variant, pitch, radius) ==
    IF variant = "part_003" THEN [num |-> pitch * radius, den |-> 90]
    ELSE [num |-> pitch * radius, den |-> 45]

\* the rectangle (x, y, w, h) of a fillRect / rect call whose y is y0 - pitchOffset:
\* its edges in units of 1/den pixel
fillRect(x, y0, w, h, offset) ==
    [left |-> x * offset.den, right |-> (x + w) * offset.den,
     top |-> y0 * offset.den - offset.num, bottom |-> (y0 + h) * offset.den - offset.num,
     den |-> offset.den]

\* AttitudeIndicator: inside the clip circle of the given radius the context is
\* moved to the centre and turned by roll, then sky, ground and horizon line are
\* drawn at the pitch offset
drawAttitude(variant, roll, pitch, size) ==
    LET radius == radiusOf(size)
        offset == pitchOffset(variant, pitch, radius)
        extendedSize == radius * 3
    IN  [clipRadius |-> radius,
         rot |-> rotate(0, roll * 10),
         pitchOffset |-> offset,
         sky |-> IF variant = "part_003"
                 THEN fillRect(0 - radius, 0 - radius, radius * 2, radius, offset)
                 ELSE fillRect(0 - extendedSize, 0 - extendedSize, extendedSize * 2,
                               extendedSize, offset),
         ground |-> IF variant = "part_003"
                    THEN fillRect(0 - radius, 0, radius * 2, radius, offset)
                    ELSE fillRect(0 - extendedSize, 0, extendedSize * 2, extendedSize, offset),
         horizon |-> [y |-> [num |-> 0 - offset.num, den |-> offset.den],
                      from |-> 0 - radius, to |-> radius]]

-----------------------------------------------------------------------------
(* The draw step of every gauge: the drawing surface, then the drawing *)

\* the canvas components of the repository
Gauges ==
    {"Altimeter", "AirspeedIndicator", "VerticalSpeedIndicator", "AttitudeIndicator",
     "AttitudeIndicator2", "Compass", "Compass2", "IMUDisplay", "IMUDisplay2"}

\* canvasRef.current is an element
hasCanvas(surface) == surface # "noCanvas"

\* canvas.getContext("2d") is a context
hasContext(surface) == surface = "ready"

returnsEarly_noContextCheck(surface) == ~hasCanvas(surface)

\* if (!canvas) return ... if (!ctx) return
returnsEarly(surface) == ~hasCanvas(surface) \/ ~hasContext(surface)

\* window.devicePixelRatio || 1
dprOf(devicePixelRatio) == IF devicePixelRatio = 0 THEN 1 ELSE devicePixelRatio

\* the first drawing calls of a gauge after the canvas is cleared
firstCalls(gauge) ==
    IF gauge = "Altimeter"
    THEN <<"beginPath", "arc", "fill", "closePath", "beginPath", "arc">>
    ELSE <<"beginPath", "arc", "fill", "beginPath", "arc", "stroke">>

\* the effect of a gauge on its canvas: the backing store after it, the calls made
\* on the context, and whether it ended in a TypeError (a property of null read)
drawStep(gauge, surface, canvas, size, devicePixelRatio) ==
    LET dpr == dprOf(devicePixelRatio)
        resized == [width |-> size * dpr, height |-> size * dpr]
    IN  IF returnsEarly(surface)
        THEN [canvas |-> canvas, calls |-> << >>, threw |-> FALSE]
        ELSE IF ~hasCanvas(surface)
        THEN [canvas |-> canvas, calls |-> << >>, threw |-> TRUE]
        ELSE IF ~hasContext(surface)
        THEN [canvas |-> resized, calls |-> << >>, threw |-> TRUE]
        ELSE [canvas |-> resized,
              calls |-> <<"scale", "clearRect">> \o firstCalls(gauge),
              threw |-> FALSE]

-----------------------------------------------------------------------------
(* IMUDisplay: the acceleration drawn on the face, in both sources *)

IMUVariants == {"IMUDisplay.tsx", "altimeter.tsx"}

\* Math.min(1, Math.max(-1, a / scaleFactor)) with scaleFactor = 5, times 5
normOf(a) == IF a > 5 THEN 5 ELSE IF a < 0 - 5 THEN 0 - 5 ELSE a

\* accelLength > 0, accelLength the root of the sum of the three squares
hasLength(acceleration) ==
    acceleration.x * acceleration.x + acceleration.y * acceleration.y
        + acceleration.z * acceleration.z > 0

\* IMUDisplay.tsx: the shaft from the centre to the acceleration's X/Y components
\* times scale = radius / 12, and the arrowhead at its end.  Points are relative to
\* the centre, in units of 1/12 pixel.
drawArrow(acceleration, radius) ==
    LET tip == <<acceleration.x * radius, 0 - acceleration.y * radius>>
        arrowAngle == Atan2Deg(0 - acceleration.y, acceleration.x)
    IN  IF hasLength(acceleration)
        THEN [drawn |-> TRUE,
              shaft |-> [from |-> <<0, 0>>, to |-> tip],
              head |-> [at |-> tip, arrowSize |-> 8,
                        back |-> {arrowAngle - 300, arrowAngle + 300}],
              points |-> {tip}, den |-> 12]
        ELSE [drawn |-> FALSE, points |-> {}, den |-> 12]

\* altimeter.tsx: no arrow; the axes of the small sphere at vizX = centerX + radius
\* - 50 and the dot moved by the clamped X and Y.  Points in units of 1/5 pixel.
drawDot(acceleration, radius) ==
    LET vizX == (radius - 50) * 5
        nx == normOf(acceleration.x)
        ny == normOf(acceleration.y)
    IN  [drawn |-> FALSE,
         points |-> {<<vizX + nx * 21, 0 - ny * 21>>,
                     <<vizX - 24 * Abs(nx), 0>>, <<vizX + 24 * Abs(nx), 0>>,
                     <<vizX, 0 - 24 * Abs(ny)>>, <<vizX, 24 * Abs(ny)>>},
         den |-> 5]

drawIMU(variant, acceleration, size) ==
    LET radius == radiusOf(size)
    IN  [faceRadius |-> radius,
         vector |-> IF variant = "IMUDisplay.tsx" THEN drawArrow(acceleration, radius)
                    ELSE drawDot(acceleration, radius)]

-----------------------------------------------------------------------------
(* The responsive layout of the panels: calculateComponentSize *)

\* the widest window of the check, in pixels
MaxWindowWidth == 1100

\* sizes are kept exact as seventieths of a pixel: w / 3.5, w / 2.5 and w * 0.7 are
\* 20 w, 28 w and 49 w seventieths
MathMin(a, b) == IF a < b THEN a ELSE b

MathMax(a, b) == IF a > b THEN a ELSE b

\* calculateComponentSize of both panels, for the windowWidth of the render
calculateComponentSize_noFloor(windowWidth) ==
    LET baseSize == IF windowWidth >= 1024 THEN MathMin(20 * windowWidth, 200 * 70)
                    ELSE IF windowWidth >= 640 THEN MathMin(28 * windowWidth, 200 * 70)
                    ELSE MathMin(49 * windowWidth, 200 * 70)
    IN  MathMin(baseSize, 200 * 70)

calculateComponentSize(windowWidth) ==
    LET baseSize == IF windowWidth >= 1024 THEN MathMin(20 * windowWidth, 200 * 70)
                    ELSE IF windowWidth >= 640 THEN MathMin(28 * windowWidth, 200 * 70)
                    ELSE MathMin(49 * windowWidth, 200 * 70)
    IN  MathMax(120 * 70, MathMin(baseSize, 200 * 70))

-----------------------------------------------------------------------------
(* The message converter: visualization_msgs/MarkerArray to foxglove.SceneUpdate *)

\* the longest MarkerArray of the check
MaxMarkers == 2

Stamp(sec, nsec) == [sec |-> sec, nsec |-> nsec]

Pose(x, w) ==
    [position |-> Vec(x, 2, 3), orientation |-> [x |-> 0, y |-> 0, z |-> 0, w |-> w]]

Color(r, a) == [r |-> r, g |-> 0, b |-> 1, a |-> a]

Marker(seq, stamp, frame_id, id, pose, color, lifetime, frame_locked) ==
    [header |-> [seq |-> seq, stamp |-> stamp, frame_id |-> frame_id],
     id |-> id, mesh_resource |-> "package://car.stl", pose |-> pose,
     scale |-> Vec(1, 1, 1), color |-> color, lifetime |-> lifetime,
     frame_locked |-> frame_locked]

\* the markers a MarkerArray message may hold
Markers ==
    { Marker(1, Stamp(10, 500), "map", 0, Pose(1, 1), Color(1, 1), Stamp(0, 0), FALSE),
      Marker(2, Stamp(11, 0), "base_link", 7, Pose(4, 0), Color(0, 1), Stamp(5, 0), TRUE),
      Marker(3, Stamp(12, 9), "map", 0 - 1, Pose(1, 1), Color(1, 0), Stamp(0, 1), TRUE),
      Marker(4, Stamp(10, 500), "odom", 12, Pose(0, 1), Color(0, 0), Stamp(0, 0), FALSE) }

\* the topics of the messages the host passes to the converter
ConverterTopics ==
    {"/globalEstimator/car_model", "/globalEstimator/drone_model", "/visualization/markers"}

\* the object literal {}
EmptyObject == [f \in {} |-> 0]

\* the entity of one marker; `model_${marker.id}` is "model_" and the decimal digits
sceneEntity(marker) ==
    [timestamp |-> marker.header.stamp,
     frame_id |-> marker.header.frame_id,
     id |-> "model_" \o ToString(marker.id),
     lifetime |-> marker.lifetime,
     frame_locked |-> marker.frame_locked,
     models |-> << [pose |-> marker.pose,
                    scale |-> [x |-> 2, y |-> 2, z |-> 2, per |-> 1000],
                    color |-> marker.color,
                    url |-> "http://raw.githubusercontent.com/TentacleSama4254/Assets/main/M600.dae"] >>,
     metadata |-> <<>>, arrows |-> <<>>, cubes |-> <<>>, spheres |-> <<>>,
     cylinders |-> <<>>, lines |-> <<>>, triangles |-> <<>>, texts |-> <<>>]

\* message.markers.map((marker) => ({ ... }))
convertToSceneUpdate_reversed(message) ==
    [deletions |-> <<>>,
     entities |-> [i \in 1..Len(message.markers) |->
                       sceneEntity(message.markers[Len(message.markers) + 1 - i])]]

convertToSceneUpdate(message) ==
    [deletions |-> <<>>,
     entities |-> [i \in 1..Len(message.markers) |-> sceneEntity(message.markers[i])]]

\* the registered converter
converter(message, event) ==
    IF event.topic = "/globalEstimator/car_model"
    THEN convertToSceneUpdate(message)
    ELSE EmptyObject

\* the message after the converter returned: map builds new objects and no
\* statement assigns into message or its markers
messageAfterConverter(message, event) == message

-----------------------------------------------------------------------------
(* Specifications *)

NoCall == [op |-> "none"]

PureIdle == arg = NoCall /\ res = NoCall

PanelIdle == panel = "none" /\ PanelInit

\* quaternionToEuler on every quaternion of the grid
InitQuat ==
    /\ arg \in {[op |-> "quaternionToEuler", quat |-> q] : q \in Quaternions}
    /\ res = NoCall
    /\ PanelIdle
    /\ dash = DashIdle

CallQuaternionToEuler ==
    /\ arg.op = "quaternionToEuler"
    /\ res = NoCall
    /\ res' = [op |-> "quaternionToEuler", sinp |-> sinpOf(arg.quat),
               euler |-> quaternionToEuler(arg.quat)]
    /\ UNCHANGED <<arg, panelVars, dash>>

NextQuat == CallQuaternionToEuler

SpecQuat == InitQuat /\ [][NextQuat]_vars

\* the heading stored from a yaw, on the IMU path and on the odometry path
InitHeading ==
    /\ arg \in {[op |-> "heading", yaw |-> y] : y \in (0 - 1800)..1800}
    /\ res = NoCall
    /\ PanelIdle
    /\ dash = DashIdle

ImuHeading ==
    /\ arg.op = "heading"
    /\ res = NoCall
    /\ res' = [op |-> "heading", path |-> "imu", heading |-> NormalizeHeading(arg.yaw)]
    /\ UNCHANGED <<arg, panelVars, dash>>

OdometryHeading ==
    /\ arg.op = "heading"
    /\ res = NoCall
    /\ res' = [op |-> "heading", path |-> "odometry", heading |-> NormalizeHeading(arg.yaw)]
    /\ UNCHANGED <<arg, panelVars, dash>>

NextHeading == ImuHeading \/ OdometryHeading

SpecHeading == InitHeading /\ [][NextHeading]_vars

\* both Compass variants drawn for heading and for heading + 360
CompassSizes == {200}

InitCompass ==
    /\ arg \in {[op |-> "Compass", variant |-> v, heading |-> h, size |-> sz] :
                    v \in {1, 2}, h \in (0 - 3600)..3600, sz \in CompassSizes}
    /\ res = NoCall
    /\ PanelIdle
    /\ dash = DashIdle

DrawCompass ==
    /\ arg.op = "Compass"
    /\ res = NoCall
    /\ res' = [op |-> "Compass",
               canvas |-> Compass(arg.variant, arg.heading, arg.size),
               canvasPlus360 |-> Compass(arg.variant, arg.heading + 3600, arg.size)]
    /\ UNCHANGED <<arg, panelVars, dash>>

NextCompass == DrawCompass

SpecCompass == InitCompass /\ [][NextCompass]_vars

\* the droneData a handler may have closed over: initialData, or a later snapshot
CapturedData ==
    { initialData,
      [initialData EXCEPT !.id = 7, !.altitude = 60, !.heading = 1800, !.roll = 100,
                          !.latitude = 11, !.longitude = 21] }

\* one frame run through the render handler of a dashboard panel
InitFrame ==
    /\ arg \in {[op |-> "onRender", panel |-> p, droneData |-> d, renderState |-> rs] :
                    p \in {"DroneDashboardPanel"}, d \in CapturedData,
                    rs \in RenderStates("DroneDashboardPanel", MaxFrameLen)}
               \cup
               {[op |-> "onRender", panel |-> p, droneData |-> d, renderState |-> rs] :
                    p \in {"MinimalDashboardPanel"}, d \in CapturedData,
                    rs \in RenderStates("MinimalDashboardPanel", MaxFrameLen)}
    /\ res = NoCall
    /\ PanelIdle
    /\ dash = DashIdle

CallOnRender ==
    /\ arg.op = "onRender"
    /\ res = NoCall
    /\ res' = [op |-> "onRender",
               out |-> processFrame(arg.panel, arg.droneData, arg.renderState, 8),
               capturedAfter |-> capturedAfter(arg.panel, arg.droneData, arg.renderState, 8)]
    /\ UNCHANGED <<arg, panelVars, dash>>

NextFrame == CallOnRender

SpecFrame == InitFrame /\ [][NextFrame]_vars

\* a panel in the host, from initPanel to disposal
InitPanel ==
    /\ panel \in Panels
    /\ PanelInit
    /\ PureIdle
    /\ dash = DashIdle

NextPanel == initPanel \/ MountCommit \/ DeliverFrame \/ Commit \/ RunPassive \/ Dispose

SpecPanel == InitPanel /\ [][NextPanel]_vars

\* a standalone dashboard view, from mount to unmount
InitDash ==
    /\ dash = DashIdle
    /\ PureIdle
    /\ PanelIdle

NextDash == DashMount \/ DashRunEffects \/ DashTick \/ DashRender \/ DashProps \/ DashUnmount

SpecDash == InitDash /\ [][NextDash]_vars

\* a dashboard mounted with the default props, its simulation running without end
InitSim ==
    /\ dash \in {runEffects(mountDash(kind, dashInitialData, TRUE)) : kind \in Dashboards}
    /\ PureIdle
    /\ PanelIdle

NextSim == SimTick \/ DashRender

SpecSim == InitSim /\ [][NextSim]_vars

\* the Altimeter drawn for an altitude and for that altitude plus maxAltitude
AltimeterRanges == {500, 360, 7}

AltimeterAltitudes == (0 - 600)..1200

InitAltimeter ==
    /\ arg \in {[op |-> "Altimeter", altitude |-> a, size |-> 200, maxAltitude |-> m] :
                    a \in AltimeterAltitudes, m \in AltimeterRanges}
    /\ res = NoCall
    /\ PanelIdle
    /\ dash = DashIdle

DrawAltimeter ==
    /\ arg.op = "Altimeter"
    /\ res = NoCall
    /\ res' = [op |-> "Altimeter",
               canvas |-> drawAltimeter(arg.altitude, arg.size, arg.maxAltitude),
               canvasPlusMax |-> drawAltimeter(arg.altitude + arg.maxAltitude, arg.size,
                                               arg.maxAltitude)]
    /\ UNCHANGED <<arg, panelVars, dash>>

NextAltimeter == DrawAltimeter

SpecAltimeter == InitAltimeter /\ [][NextAltimeter]_vars

\* the AirspeedIndicator drawn for an airspeed below, inside and above its range
AirspeedRanges == {300, 250, 70}

Airspeeds == (0 - 100)..500

InitAirspeed ==
    /\ arg \in {[op |-> "Airspeed", airspeed |-> a, size |-> 200, maxAirspeed |-> m] :
                    a \in Airspeeds, m \in AirspeedRanges}
    /\ res = NoCall
    /\ PanelIdle
    /\ dash = DashIdle

DrawAirspeed ==
    /\ arg.op = "Airspeed"
    /\ res = NoCall
    /\ res' = [op |-> "Airspeed",
               canvas |-> drawAirspeed(arg.airspeed, arg.size, arg.maxAirspeed)]
    /\ UNCHANGED <<arg, panelVars, dash>>

NextAirspeed == DrawAirspeed

SpecAirspeed == InitAirspeed /\ [][NextAirspeed]_vars

\* the VerticalSpeedIndicator drawn for a speed, for the limit on the speed's side
\* and for the opposite speed
VsiRanges == {500, 300}

VsiSpeeds == {v \in (0 - 800)..800 : v % 2 = 0} \cup {99900, 0 - 99900}

InitVsi ==
    /\ arg \in {[op |-> "Vsi", verticalSpeed |-> v, size |-> 200, maxVerticalSpeed |-> m] :
                    v \in VsiSpeeds, m \in VsiRanges}
    /\ res = NoCall
    /\ PanelIdle
    /\ dash = DashIdle

DrawVsi ==
    /\ arg.op = "Vsi"
    /\ res = NoCall
    /\ res' = [op |-> "Vsi",
               canvas |-> drawVsi(arg.verticalSpeed, arg.size, arg.maxVerticalSpeed),
               canvasAtLimit |-> drawVsi(IF arg.verticalSpeed < 0
                                         THEN 0 - arg.maxVerticalSpeed
                                         ELSE arg.maxVerticalSpeed,
                                         arg.size, arg.maxVerticalSpeed),
               canvasOpposite |-> drawVsi(0 - arg.verticalSpeed, arg.size,
                                          arg.maxVerticalSpeed)]
    /\ UNCHANGED <<arg, panelVars, dash>>

NextVsi == DrawVsi

SpecVsi == InitVsi /\ [][NextVsi]_vars

\* the AttitudeIndicator drawn for a roll and a pitch, and for the same roll at
\* pitch 0 and pitch 1 and the same pitch a quarter turn further
AttitudeSizes == {200, 120}

AttitudeRolls == {r \in (0 - 180)..180 : r % 15 = 0}

AttitudePitches == (0 - 90)..90

InitAttitude ==
    /\ arg \in {[op |-> "Attitude", variant |-> v, roll |-> r, pitch |-> p, size |-> sz] :
                    v \in AttitudeVariants, r \in AttitudeRolls, p \in AttitudePitches,
                    sz \in AttitudeSizes}
    /\ res = NoCall
    /\ PanelIdle
    /\ dash = DashIdle

DrawAttitude ==
    /\ arg.op = "Attitude"
    /\ res = NoCall
    /\ res' = [op |-> "Attitude",
               canvas |-> drawAttitude(arg.variant, arg.roll, arg.pitch, arg.size),
               canvasLevel |-> drawAttitude(arg.variant, arg.roll, 0, arg.size),
               canvasOneDegree |-> drawAttitude(arg.variant, arg.roll, 1, arg.size),
               canvasRolled |-> drawAttitude(arg.variant, arg.roll + 90, arg.pitch, arg.size)]
    /\ UNCHANGED <<arg, panelVars, dash>>

NextAttitude == DrawAttitude

SpecAttitude == InitAttitude /\ [][NextAttitude]_vars

\* the draw step of each gauge with and without a canvas and a 2D context
Surfaces == {"noCanvas", "noContext", "ready"}

CanvasStores == {[width |-> 300, height |-> 150], [width |-> 200, height |-> 200]}

InitSurface ==
    /\ arg \in {[op |-> "draw", gauge |-> g, surface |-> s, canvas |-> c, size |-> sz,
                 devicePixelRatio |-> r] :
                    g \in Gauges, s \in Surfaces, c \in CanvasStores, sz \in {200, 120},
                    r \in 0..2}
    /\ res = NoCall
    /\ PanelIdle
    /\ dash = DashIdle

RunDrawStep ==
    /\ arg.op = "draw"
    /\ res = NoCall
    /\ res' = [op |-> "draw",
               out |-> drawStep(arg.gauge, arg.surface, arg.canvas, arg.size,
                                arg.devicePixelRatio)]
    /\ UNCHANGED <<arg, panelVars, dash>>

NextSurface == RunDrawStep

SpecSurface == InitSurface /\ [][NextSurface]_vars

\* both IMUDisplay sources drawn for an acceleration
AccelXY == (0 - 14)..14

AccelZ == {0, 10, 0 - 3}

InitIMU ==
    /\ arg \in {[op |-> "IMU", variant |-> v, acceleration |-> [x |-> x, y |-> y, z |-> z],
                 size |-> 200] :
                    v \in IMUVariants, x \in AccelXY, y \in AccelXY, z \in AccelZ}
    /\ res = NoCall
    /\ PanelIdle
    /\ dash = DashIdle

DrawIMU ==
    /\ arg.op = "IMU"
    /\ res = NoCall
    /\ res' = [op |-> "IMU", canvas |-> drawIMU(arg.variant, arg.acceleration, arg.size)]
    /\ UNCHANGED <<arg, panelVars, dash>>

NextIMU == DrawIMU

SpecIMU == InitIMU /\ [][NextIMU]_vars

\* the component size of a window width and of the next wider window
InitSize ==
    /\ arg \in {[op |-> "calculateComponentSize", windowWidth |-> w] : w \in 0..MaxWindowWidth}
    /\ res = NoCall
    /\ PanelIdle
    /\ dash = DashIdle

CallSize ==
    /\ arg.op = "calculateComponentSize"
    /\ res = NoCall
    /\ res' = [op |-> "calculateComponentSize",
               size |-> calculateComponentSize(arg.windowWidth),
               wider |-> calculateComponentSize(arg.windowWidth + 1)]
    /\ UNCHANGED <<arg, panelVars, dash>>

NextSize == CallSize

SpecSize == InitSize /\ [][NextSize]_vars

\* one MarkerArray message run through the registered converter
InitConverter ==
    /\ arg \in {[op |-> "converter", message |-> [markers |-> ms], event |-> [topic |-> t]] :
                    ms \in SeqsUpTo(Markers, MaxMarkers), t \in ConverterTopics}
    /\ res = NoCall
    /\ PanelIdle
    /\ dash = DashIdle

CallConverter ==
    /\ arg.op = "converter"
    /\ res = NoCall
    /\ res' = [op |-> "converter",
               out |-> converter(arg.message, arg.event),
               messageAfter |-> messageAfterConverter(arg.message, arg.event)]
    /\ UNCHANGED <<arg, panelVars, dash>>

NextConverter == CallConverter

SpecConverter == InitConverter /\ [][NextConverter]_vars

-----------------------------------------------------------------------------
(* Claims *)

\* C1: every onRender(renderState, done) of a mounted panel has its done called
\* exactly once, after the frame's state update is committed and before the next
\* frame, whatever callback value the host passes.  Stated on the settled panel:
\* done is never called twice, never before the commit, and once React has nothing
\* left to do the last frame's done was called once.
C1_DoneOncePerFrame ==
    /\ host.calls <= 1
    /\ (host.calls = 1 /\ root = "mounted") => pending = NoPending
    /\ (root = "mounted" /\ host.frames > 0 /\ pending = NoPending /\ ~passive)
            => host.calls = 1

\* the channels of a panel, as tests on a topic
matchesChannel(p, c, topic) ==
    CASE c = "gps" -> isGps(p, topic)
      [] c = "imu" -> isImu(p, topic)
      [] c = "odometry" -> isOdometry(p, topic)

Channels == {"gps", "imu", "odometry"}

\* message i is superseded: a later message of the frame matches a channel it matches
superseded(p, frame, i) ==
    \E c \in Channels, j \in (i + 1)..Len(frame) :
        matchesChannel(p, c, frame[i].topic) /\ matchesChannel(p, c, frame[j].topic)

RECURSIVE dropSuperseded(_, _, _)
dropSuperseded(p, frame, i) ==
    IF i > Len(frame) THEN <<>>
    ELSE (IF superseded(p, frame, i) THEN <<>> ELSE <<frame[i]>>)
             \o dropSuperseded(p, frame, i + 1)

\* C2: several messages of one channel in a frame: only the last is applied; the
\* result is the one of the frame without the earlier messages of that channel.
C2_LastMessageWins ==
    (res.op = "onRender" /\ "currentFrame" \in DOMAIN arg.renderState)
        => res.out = processFrame(arg.panel, arg.droneData,
                                  [arg.renderState EXCEPT !.currentFrame =
                                       dropSuperseded(arg.panel, @, 1)], 8)

\* a frame with two GPS messages of different payloads, and two IMU messages, applied
C2_Witness ==
    /\ res.op = "onRender"
    /\ "currentFrame" \in DOMAIN arg.renderState
    /\ LET f == arg.renderState.currentFrame
       IN  /\ Len(f) = 3
           /\ isGps(arg.panel, f[1].topic) /\ isGps(arg.panel, f[3].topic)
           /\ Truthy(f[1].message) /\ Truthy(f[3].message)
           /\ f[1].message # f[3].message
           /\ isImu(arg.panel, f[2].topic) /\ Truthy(f[2].message)
    /\ res.out.dataUpdated
    /\ res.out.data.altitude = arg.renderState.currentFrame[3].message.altitude

\* C3: after the disposer ran, no handler of the panel is left on context.onRender,
\* the subscription is gone, and no render call of the host runs panel code.
C3_TornDownAfterDispose ==
    root = "unmounted"
        => /\ ~onRender.installed
           /\ host.subscribed = {}
           /\ host.lateRuns = 0

\* C4: at most one simulation interval is active per mounted view, and none once
\* the view is unmounted.
C4_AtMostOneTimer ==
    /\ Cardinality(dash.timers) <= 1
    /\ dash.view # "mounted" => dash.timers = {}

\* a DroneDashboard whose props changed, that created two intervals, unmounted
C4_Witness ==
    /\ dash.kind = "DroneDashboard"
    /\ dash.view = "unmounted"
    /\ dash.changes >= 1
    /\ dash.created >= 2

\* C5: every snapshot held in dashboard state has heading in [0, 360), whatever
\* its source.
C5_HeadingNormalized ==
    /\ dash.view # "none" => dash.droneData.heading \in 0..3599
    /\ "heading" \in DOMAIN droneData => droneData.heading \in 0..3599

\* C6: for every yaw in [-180, 180] the stored heading (yaw + 360) % 360 lies in
\* [0, 360) and is congruent to yaw modulo 360, on the IMU and the odometry path.
C6_HeadingInRange ==
    res.op = "heading"
        => /\ res.heading \in 0..3599
           /\ (res.heading - arg.yaw) % 3600 = 0

\* a negative yaw on the odometry path
C6_Witness ==
    /\ res.op = "heading"
    /\ res.path = "odometry"
    /\ arg.yaw = 0 - 1800
    /\ res.heading = 1800

\* C7: quaternionToEuler of the identity quaternion is roll 0, pitch 0, yaw 0.
C7_Identity ==
    (res.op = "quaternionToEuler" /\ arg.quat = identityQuat)
        => res.euler = [roll |-> 0, pitch |-> 0, yaw |-> 0]

C7_Witness == res.op = "quaternionToEuler" /\ arg.quat = identityQuat

\* C8: |sinp| >= 1 gives pitch exactly +90 for positive sinp and exactly -90 for
\* negative sinp, never NaN.
C8_ClampAtNinety ==
    (res.op = "quaternionToEuler" /\ Abs(res.sinp) >= QDen)
        => /\ res.euler.pitch = (IF res.sinp > 0 THEN 900 ELSE 0 - 900)
           /\ res.euler.pitch # NaN

\* sinp beyond the domain of arcsine, clamped to -90
C8_Witness ==
    /\ res.op = "quaternionToEuler"
    /\ res.sinp < 0 - QDen
    /\ res.euler.pitch = 0 - 900

\* C9: the clamp branch is taken only when |sinp| >= 1: below it the pitch is the
\* arcsine (strictly inside (-90, 90)), sinp = 0 gives pitch 0, and every returned
\* pitch lies in [-90, 90].
C9_ClampOnlyAtBoundary ==
    res.op = "quaternionToEuler"
        => /\ Abs(res.sinp) < QDen
                => /\ res.euler.pitch = AsinDeg(res.sinp, QDen)
                   /\ Abs(res.euler.pitch) < 900
           /\ res.sinp = 0 => res.euler.pitch = 0
           /\ res.euler.pitch \in (0 - 900)..900

\* the all-zero quaternion
C9_Witness ==
    /\ res.op = "quaternionToEuler"
    /\ arg.quat = [x |-> 0, y |-> 0, z |-> 0, w |-> 0]
    /\ res.euler.pitch = 0

\* C10 as stated: the Compass renders heading h + 360 identically to heading h.
C10_RendersIdentically ==
    res.op = "Compass" => res.canvas = res.canvasPlus360

\* C10, amended: the rotating dial (markers, numbers, direction letters) is drawn
\* for h + 360 exactly where it is drawn for h, in both variants; the heading text
\* is the rounded raw heading and differs.
C10_DialIdentical ==
    res.op = "Compass"
        => /\ res.canvas.dial = res.canvasPlus360.dial
           /\ res.canvas.readout # res.canvasPlus360.readout

\* heading 10 against heading 370, second variant: the text reads 10 and 370
C10_Witness ==
    /\ res.op = "Compass"
    /\ arg.variant = 2
    /\ arg.heading = 100
    /\ res.canvas.readout.digits = 10
    /\ res.canvasPlus360.readout.digits = 370

\* C11: the Altimeter needle angle is (altitude / maxAltitude) x 360 degrees for
\* every altitude, unclamped: half of maxAltitude gives exactly 180 degrees from the
\* 12 o'clock reference, and altitude + maxAltitude turns the needle to the same
\* direction as altitude.
C11_NeedleLinearWraps ==
    res.op = "Altimeter"
        => /\ res.canvas.needleAngle.den = arg.maxAltitude
           /\ res.canvas.needleAngle.num = arg.altitude * 3600
           /\ (2 * arg.altitude = arg.maxAltitude
                => res.canvas.needle.rot.num = 1800 * res.canvas.needle.rot.den)
           /\ res.canvas.needle = res.canvasPlusMax.needle

\* 250 m of 500 m: the needle points to 6 o'clock, and so does it at 750 m
C11_Witness ==
    /\ res.op = "Altimeter"
    /\ arg.altitude = 250
    /\ arg.maxAltitude = 500
    /\ res.canvas.needle.rot = [num |-> 1800 * 500, den |-> 500]
    /\ res.canvasPlusMax.needleAngle.num = 750 * 3600
    /\ res.canvasPlusMax.needle.rot = res.canvas.needle.rot

\* C12: the five zone arcs of the AirspeedIndicator are contiguous, run from the
\* start angle (-135 degrees) to the end angle (+135 degrees) and cover 10, 10, 60,
\* 10, 10 percent of the sweep as red, yellow, green, yellow, red, whatever
\* maxAirspeed is.
C12_ZonesPartitionSweep ==
    res.op = "Airspeed"
        => LET z == res.canvas.zones
               share == <<10, 10, 60, 10, 10>>
               colors == <<"#ff3b30", "#ffcc00", "#34c759", "#ffcc00", "#ff3b30">>
           IN  /\ Len(z) = 5
               /\ z[1].from = 0 - 1350
               /\ z[5].to = 1350
               /\ \A i \in 1..4 : z[i].to = z[i + 1].from
               /\ \A i \in 1..5 : /\ (z[i].to - z[i].from) * 100 = share[i] * 2700
                                  /\ z[i].color = colors[i]

\* maxAirspeed = 30: the first red arc ends at -135 + 27 = -108 degrees
C12_Witness ==
    /\ res.op = "Airspeed"
    /\ arg.maxAirspeed = 300
    /\ res.canvas.zones[1] = [from |-> 0 - 1350, to |-> 0 - 1080, color |-> "#ff3b30"]
    /\ res.canvas.zones[3].to - res.canvas.zones[3].from = 1620

\* C13: the airspeed is clamped to [0, maxAirspeed] before it is mapped, so the
\* needle stays within the arc from -135 to +135 degrees for every airspeed.
C13_NeedleWithinArc ==
    res.op = "Airspeed"
        => /\ res.canvas.needleAngle.num >= (0 - 1350) * res.canvas.needleAngle.den
           /\ res.canvas.needleAngle.num <= 1350 * res.canvas.needleAngle.den

\* C14 as stated: at or beyond +-maxVerticalSpeed the VerticalSpeedIndicator
\* renders identically to the limit itself.
C14_RendersAsLimit ==
    (res.op = "Vsi" /\ Abs(arg.verticalSpeed) >= arg.maxVerticalSpeed)
        => res.canvas = res.canvasAtLimit

\* C14, amended: at or beyond +-maxVerticalSpeed the needle is drawn exactly as at
\* the limit; the readout prints the raw verticalSpeed and differs from the limit's
\* as soon as the speed does by a tenth.
C14_NeedleAsLimit ==
    (res.op = "Vsi" /\ Abs(arg.verticalSpeed) >= arg.maxVerticalSpeed)
        => /\ res.canvas.needle = res.canvasAtLimit.needle
           /\ res.canvas.needleAngle = res.canvasAtLimit.needleAngle
           /\ (Abs(arg.verticalSpeed) >= arg.maxVerticalSpeed + 10
                => res.canvas.readout # res.canvasAtLimit.readout)

\* verticalSpeed = 999 with maxVerticalSpeed = 5: the needle of 5, the text 999.0
C14_Witness ==
    /\ res.op = "Vsi"
    /\ arg.verticalSpeed = 99900
    /\ arg.maxVerticalSpeed = 500
    /\ res.canvas.needle = res.canvasAtLimit.needle
    /\ res.canvas.readout.tenths = 9990
    /\ res.canvasAtLimit.readout.tenths = 50

\* C15: verticalSpeed = 0 puts the needle on the horizontal axis, at 9 o'clock
\* (180 degrees), and the speeds -v and +v lie symmetrically about that position.
C15_ZeroAtNineOClock ==
    res.op = "Vsi"
        => /\ (arg.verticalSpeed = 0
                => res.canvas.needle.rot.num = 1800 * res.canvas.needle.rot.den)
           /\ res.canvas.needleAngle.num + res.canvasOpposite.needleAngle.num
                = 2 * drawVsi(0, arg.size, arg.maxVerticalSpeed).needleAngle.num

\* C16: in every AttitudeIndicator variant the horizon offset is a linear, strictly
\* increasing function of pitch over [-90, 90], 0 at pitch 0 and independent of
\* roll: the offset at pitch p is p times the (positive) offset at 1 degree.
C16_OffsetLinearInPitch ==
    res.op = "Attitude"
        => /\ res.canvasLevel.pitchOffset.num = 0
           /\ res.canvasOneDegree.pitchOffset.num > 0
           /\ res.canvas.pitchOffset.den = res.canvasOneDegree.pitchOffset.den
           /\ res.canvas.pitchOffset.num = arg.pitch * res.canvasOneDegree.pitchOffset.num
           /\ res.canvasRolled.pitchOffset = res.canvas.pitchOffset
           /\ res.canvas.horizon.y.num = 0 - res.canvas.pitchOffset.num

\* pitch 90 at size 200: the horizon is one radius (90 px) off centre in the first
\* source and two radii in the second
C16_Witness ==
    /\ res.op = "Attitude"
    /\ arg.pitch = 90
    /\ arg.size = 200
    /\ arg.roll = 30
    /\ res.canvas.pitchOffset.num = (IF arg.variant = "part_003" THEN 1 ELSE 2) * 90
                                        * res.canvas.pitchOffset.den
    /\ res.canvasRolled.rot # res.canvas.rot

\* sin and cos of a whole number of degrees, times 10000
SinOf(d) ==
    LET m == d % 360
    IN  IF m <= 90 THEN SinDeg(m)
        ELSE IF m <= 180 THEN SinDeg(180 - m)
        ELSE IF m <= 270 THEN 0 - SinDeg(m - 180)
        ELSE 0 - SinDeg(360 - m)

CosOf(d) == SinOf(d + 90)

\* the point of the clip face at distance rho from the centre in screen direction
\* theta lies, in the context turned by roll, at direction theta - roll
inRect(rect, rho, theta, roll) ==
    LET x == rho * CosOf(theta - roll) * rect.den
        y == rho * SinOf(theta - roll) * rect.den
    IN  /\ rect.left * 10000 <= x
        /\ x <= rect.right * 10000
        /\ rect.top * 10000 <= y
        /\ y <= rect.bottom * 10000

\* C17: for every roll in [-180, 180] and pitch in [-90, 90], in every variant, the
\* sky and ground rectangles together cover the whole circular clip face (checked
\* on the rim, at half radius and at the centre, every 5 degrees around).
C17_FaceCovered ==
    res.op = "Attitude"
        => \A theta \in {t \in 0..359 : t % 5 = 0} :
             \A rho \in {0, res.canvas.clipRadius \div 2, res.canvas.clipRadius} :
                \/ inRect(res.canvas.sky, rho, theta, arg.roll)
                \/ inRect(res.canvas.ground, rho, theta, arg.roll)

\* C18: when the canvas element or its 2D context is unavailable, a gauge's draw
\* step makes no drawing call, leaves the canvas as it was and raises no error.
C18_NoSurfaceNoOp ==
    (res.op = "draw" /\ arg.surface # "ready")
        => /\ res.out.calls = << >>
           /\ res.out.canvas = arg.canvas
           /\ ~res.out.threw

\* IMUDisplay with a canvas whose getContext returns null, next to what the same
\* step does with a context: nothing, against a resized and cleared canvas
C18_Witness ==
    /\ res.op = "draw"
    /\ arg.gauge = "IMUDisplay"
    /\ arg.surface = "noContext"
    /\ arg.canvas.width = 300
    /\ res.out = [canvas |-> arg.canvas, calls |-> << >>, threw |-> FALSE]
    /\ drawStep(arg.gauge, "ready", arg.canvas, arg.size, arg.devicePixelRatio).calls # << >>

\* C19: in every IMUDisplay variant the drawn acceleration vector is clamped to the
\* visible radius: whatever the acceleration, every end point drawn for it lies
\* within the circular face.
C19_VectorWithinFace ==
    res.op = "IMU"
        => \A p \in res.canvas.vector.points :
              p[1] * p[1] + p[2] * p[2]
                <= (res.canvas.faceRadius * res.canvas.vector.den)
                     * (res.canvas.faceRadius * res.canvas.vector.den)

\* C20: IMUDisplay draws neither shaft nor arrowhead when the acceleration has no
\* X/Y extent, also when only z is not 0.
C20_NoArrowWithoutXY ==
    (res.op = "IMU" /\ arg.acceleration.x = 0 /\ arg.acceleration.y = 0)
        => ~res.canvas.vector.drawn

\* the frame holds messages, and every one of them matches the filter of channel c
\* and of no other channel
onlyChannel(p, frame, c) ==
    /\ Len(frame) > 0
    /\ \A i \in 1..Len(frame) :
          \A d \in Channels : matchesChannel(p, d, frame[i].topic) <=> d = c

\* the fields of a snapshot other than the named ones (and its identity) are those
\* of the snapshot before
sameExcept(new, old, fields) ==
    \A f \in (DOMAIN old) \ (fields \cup {"id"}) : new[f] = old[f]

\* C21: onRender never writes into the droneData object it closed over: the new
\* values go to a new object, handed to setDroneData, and the earlier snapshot
\* reads as before.
C21_SnapshotNotMutated ==
    res.op = "onRender"
        => /\ res.capturedAfter = arg.droneData
           /\ (res.out.dataUpdated => res.out.data.id # arg.droneData.id)
           /\ (~res.out.dataUpdated => res.out.data = arg.droneData)

\* a GPS message of altitude 60 applied over a snapshot of altitude 0: the new
\* object holds 60, the earlier one still 0
C21_Witness ==
    /\ res.op = "onRender"
    /\ arg.droneData = initialData
    /\ res.out.dataUpdated
    /\ res.out.data.altitude = 60
    /\ res.out.data.id = 8
    /\ res.capturedAfter.altitude = 0

\* C22: a frame of GPS messages only changes latitude, longitude and altitude only,
\* to the values of the message; a frame of IMU messages only changes roll, pitch,
\* heading, imuAcceleration and imuGyro only; no frame changes imuMag.
C22_ChannelFields ==
    (res.op = "onRender" /\ "currentFrame" \in DOMAIN arg.renderState)
        => LET frame == arg.renderState.currentFrame
               last == frame[Len(frame)].message
           IN  /\ res.out.data.imuMag = arg.droneData.imuMag
               /\ onlyChannel(arg.panel, frame, "gps")
                    => /\ sameExcept(res.out.data, arg.droneData,
                                     {"latitude", "longitude", "altitude"})
                       /\ Truthy(last)
                            => /\ res.out.data.latitude = last.latitude
                               /\ res.out.data.longitude = last.longitude
                               /\ res.out.data.altitude = last.altitude
               /\ onlyChannel(arg.panel, frame, "imu")
                    => /\ sameExcept(res.out.data, arg.droneData,
                                     {"roll", "pitch", "heading", "imuAcceleration",
                                      "imuGyro"})
                       /\ Truthy(last)
                            => /\ res.out.data.imuAcceleration = last.linear_acceleration
                               /\ res.out.data.imuGyro = last.angular_velocity

\* an IMU-only frame over a snapshot that holds a position: attitude and vectors
\* change, latitude, longitude and altitude stay
C22_Witness ==
    /\ res.op = "onRender"
    /\ "currentFrame" \in DOMAIN arg.renderState
    /\ onlyChannel(arg.panel, arg.renderState.currentFrame, "imu")
    /\ arg.droneData.latitude = 11
    /\ res.out.dataUpdated
    /\ res.out.data.pitch = 900
    /\ res.out.data.imuGyro # arg.droneData.imuGyro
    /\ res.out.data.latitude = 11
    /\ res.out.data.altitude = 60

\* the frame holds a message of the channel
holdsChannel(p, frame, c) ==
    \E i \in 1..Len(frame) : matchesChannel(p, c, frame[i].topic)

\* the last Odometry message of the frame carries a pose orientation
lastOdometry(frame) ==
    PickMessage(SelectSeq(frame, LAMBDA msg : isOdometry("MinimalDashboardPanel", msg.topic)))

\* C25: in MinimalDashboardPanel, a frame whose last Odometry message carries an
\* orientation sets roll, pitch and heading from that orientation exactly when the
\* frame holds no IMU message, with or without a GPS message in the frame.
C25_OdometryFallback ==
    (/\ res.op = "onRender"
     /\ arg.panel = "MinimalDashboardPanel"
     /\ "currentFrame" \in DOMAIN arg.renderState
     /\ \E i \in 1..Len(arg.renderState.currentFrame) :
            isOdometry(arg.panel, arg.renderState.currentFrame[i].topic)
     /\ HasPose(lastOdometry(arg.renderState.currentFrame).message)
     /\ "orientation" \in DOMAIN lastOdometry(arg.renderState.currentFrame).message.pose.pose)
        => LET frame == arg.renderState.currentFrame
               e == quaternionToEuler(lastOdometry(frame).message.pose.pose.orientation)
               fromOdometry == /\ res.out.dataUpdated
                               /\ res.out.data.roll = e.roll
                               /\ res.out.data.pitch = e.pitch
                               /\ res.out.data.heading = NormalizeHeading(e.yaw)
           IN  fromOdometry <=> ~holdsChannel(arg.panel, frame, "imu")

\* every queued update is committed and the panel is on screen
settled == root = "mounted" /\ pending = NoPending /\ panel # "ExamplePanel"

C24_NoMatchKeepsData ==
    [][/\ (/\ root = "mounted"
           /\ panel # "ExamplePanel"
           /\ host'.frames = host.frames + 1
           /\ ~host'.matched)
          => pending' = [done |-> host'.awaiting, hasData |-> FALSE]
       /\ (/\ root = "mounted" /\ root' = "mounted"
           /\ panel # "ExamplePanel"
           /\ ~host.matched
           /\ pending # NoPending /\ pending' = NoPending)
          => /\ droneData' = droneData
             /\ onRender' = onRender
             /\ host' = host
             /\ renderDone' = pending.done]_vars

\* after a frame with data was committed, a frame without a matching message was
\* delivered and committed: the handler is still the one of the frame before
C24_Witness ==
    /\ settled
    /\ host.frames = 2
    /\ ~host.matched
    /\ renderDone = host.awaiting
    /\ droneData.id = 1
    /\ onRender.data.id = 1
    /\ host.subscribeCalls = 2

\* C26: while the panel is mounted a render handler is installed on the context,
\* and every context.subscribe call passes the same topic list: no commit changes
\* the subscribed set or leaves the context without its handler.
C26_OneHandlerFixedTopics ==
    [][/\ root' = "mounted"
          => /\ onRender'.installed
             /\ host'.subscribed = SubscribedTopics(panel)
       /\ (root = "mounted" /\ root' = "mounted")
          => host'.subscribed = host.subscribed]_vars

\* the layout effect ran again after a frame with data: second subscribe call,
\* the same topics
C26_Witness ==
    /\ root = "mounted"
    /\ host.subscribeCalls >= 2
    /\ onRender.installed
    /\ onRender.data.id = droneData.id
    /\ droneData.id # 0
    /\ host.subscribed = SubscribedTopics(panel)

\* C27: a DroneDashboard with simulateData = false shows the data prop: once the
\* effects of a render ran, no timer is left, the last queued update (if any) sets
\* the data prop, and with nothing queued droneData is the data prop; ticks of an
\* earlier simulation never come after it.
C27_SuppliedDataWins ==
    (/\ dash.view = "mounted"
     /\ dash.kind = "DroneDashboard"
     /\ ~dash.simulateData
     /\ ~dash.effects)
        => /\ dash.timers = {}
           /\ dash.queue = <<>> => dash.droneData = dash.data
           /\ dash.queue # <<>>
                => dash.queue[Len(dash.queue)] = [kind |-> "set", data |-> dash.data]

\* a simulation ticked, then the parent passed simulateData = false with another
\* data object: the supplied object is shown
C27_Witness ==
    /\ dash.view = "mounted"
    /\ dash.kind = "DroneDashboard"
    /\ ~dash.simulateData
    /\ ~dash.effects
    /\ dash.queue = <<>>
    /\ dash.ticks >= 1
    /\ dash.changes >= 1
    /\ dash.data.id = 1
    /\ dash.droneData = dash.data

\* C28: simulated from the default initialData, heading and yaw stay in [0, 360)
\* after any number of ticks, and each tick advances them by 0.2 and 0.5 degrees
\* modulo 360 from the snapshot before: after n ticks they are 0.2 n and 0.5 n
\* modulo 360, also when several ticks were queued between two renders.
C28_SimulationWraps ==
    /\ 0 <= dash.droneData.heading /\ dash.droneData.heading < 3600
    /\ dash.kind = "DroneDashboard"
          => 0 <= dash.droneData.yaw /\ dash.droneData.yaw < 3600
    /\ LET n == (dash.ticks + 3600 - Len(dash.queue)) % 3600
       IN  /\ dash.droneData.heading = (2 * n) % 3600
           /\ dash.kind = "DroneDashboard" => dash.droneData.yaw = (5 * n) % 3600

\* the heading passed 360 degrees and wrapped: 1801 ticks, two of them rendered
\* together
C28_Witness ==
    /\ dash.kind = "DroneDashboard"
    /\ dash.ticks = 1801
    /\ dash.queue = <<>>
    /\ dash.droneData.heading = 2
    /\ dash.droneData.yaw = 1805

\* C29: for every windowWidth >= 0, in each of the three bands, the component size
\* is between 120 and 200 pixels, and a wider window never gets a smaller size.
C29_SizeClampedMonotone ==
    res.op = "calculateComponentSize"
        => /\ 120 * 70 <= res.size /\ res.size <= 200 * 70
           /\ res.size <= res.wider

\* a narrow window inside the ramp of the small band: 0.7 * 200 = 140 pixels, and
\* 140.7 for the window one pixel wider
C29_Witness ==
    /\ res.op = "calculateComponentSize"
    /\ arg.windowWidth = 200
    /\ res.size = 140 * 70
    /\ res.wider = 140 * 70 + 49

\* C30: the converter answers {} for every topic but /globalEstimator/car_model;
\* for that topic it returns no deletions and one entity per marker, in marker
\* order, with id model_<marker.id> and the marker's stamp, frame_id, lifetime,
\* frame_locked, pose and color; the input message is as it was.
C30_ConverterPerMarker ==
    res.op = "converter"
        => /\ res.messageAfter = arg.message
           /\ IF arg.event.topic = "/globalEstimator/car_model"
              THEN LET markers == arg.message.markers
                   IN  /\ DOMAIN res.out = {"deletions", "entities"}
                       /\ res.out.deletions = <<>>
                       /\ Len(res.out.entities) = Len(markers)
                       /\ \A i \in 1..Len(markers) :
                            LET e == res.out.entities[i]
                                m == markers[i]
                            IN  /\ e.id = "model_" \o ToString(m.id)
                                /\ e.timestamp = m.header.stamp
                                /\ e.frame_id = m.header.frame_id
                                /\ e.lifetime = m.lifetime
                                /\ e.frame_locked = m.frame_locked
                                /\ Len(e.models) = 1
                                /\ e.models[1].pose = m.pose
                                /\ e.models[1].color = m.color
              ELSE DOMAIN res.out = {}

\* two different markers on the converted topic: two entities, model_7 first
C30_Witness ==
    /\ res.op = "converter"
    /\ arg.event.topic = "/globalEstimator/car_model"
    /\ Len(arg.message.markers) = 2
    /\ arg.message.markers[1].id = 7
    /\ arg.message.markers[2].id = 0 - 1
    /\ Len(res.out.entities) = 2
    /\ res.out.entities[1].id = "model_7"
    /\ res.out.entities[2].id = "model_-1"
    /\ res.out.entities[1].frame_id = "base_link"

====
